---- MODULE Spec2Model ----
(***************************************************************************)
(* A model of simple-ci-cache: the content-addressed blob store            *)
(* (src/cache/file.rs), the command record store (src/cache/folder.rs,     *)
(* src/cache/command.rs), the output gatherer (src/config/project.rs), the *)
(* fingerprint (src/cache/command.rs, src/config/mod.rs) and the cache     *)
(* orchestrator (src/main.rs).                                             *)
(*                                                                         *)
(* File contents are sequences of chunks <<"raw", c>>; a chunk is the unit *)
(* one read/write of a copy loop moves.  A file's size in bytes is carried *)
(* separately as [kib, rest] (size = kib * 1024 + rest) so that sizes      *)
(* beyond 2^31 are exact.                                                  *)
(***************************************************************************)
EXTENDS Integers, Sequences, FiniteSets, TLC

VARIABLES
    fdir,        \* <cache_root>/files/<hash> directories that exist
    fpayload,    \* <cache_root>/files/<hash>/compressed, per hash
    fmeta,       \* <cache_root>/files/<hash>/file.json, per hash
    task,        \* the state of each running CachedFile::create call
    calls,       \* number of create calls issued so far
    lastOpen,    \* the result of the latest CachedFile::open of a reader
    lastRestore, \* the result of the latest CachedFile::restore of a reader
    dc,          \* latest input and result of determine_compression
    cdir,        \* <cache_root>/commands/<fingerprint> directories that exist
    cjson,       \* <cache_root>/commands/<fingerprint>/command.json
    tmp,         \* the capture file <temp_dir>/<fingerprint>.txt
    work,        \* the project's output files in the working tree
    run,         \* the main task of the current invocation of the tool
    runs,        \* number of invocations started so far
    child,       \* the spawned shell command of the current invocation
    pipe,        \* chunks the child wrote to its stdout that are not read yet
    tee,         \* the task running redirect_to_file_and_stdout
    permits,     \* free permits of gather's semaphore
    okCreates,   \* hashes whose create returned Ok to the current invocation
    rst,         \* the state of a CachedFile::restore call stepped on its own
    pool,        \* the store tasks of a gather with many hashes, counted by state
    fpr,         \* two invocations' inputs to handle_command and their fingerprints
    globs        \* the state of a get_all_depenend_file_globs call

\* The variables of the components that are also checked on their own.
unitVars == <<rst, pool, fpr, globs>>

orchVars == <<cdir, cjson, tmp, work, run, runs, child, pipe, tee, permits, okCreates>>

vars == <<fdir, fpayload, fmeta, task, calls, lastOpen, lastRestore, dc, orchVars, unitVars>>

-----------------------------------------------------------------------------
(* Bounds of the model *)

MaxCalls == 3

MaxRuns == 2

\* The largest number of distinct output hashes of a gather whose store tasks
\* are counted.
MaxHashes == 102

-----------------------------------------------------------------------------
(* Sizes: u64 byte counts as [kib, rest] with 0 <= rest < 1024 *)

KiB == 1024

Size(k, r) == [kib |-> k, rest |-> r]

SizeLess(a, b) == a.kib < b.kib \/ (a.kib = b.kib /\ a.rest < b.rest)

TenKiB == Size(10, 0)

OneGiB == Size(KiB * KiB, 0)

-----------------------------------------------------------------------------
(* Compression kinds and the selection policy *)

Compression == {"None", "Brotli", "Xz", "XzParallel"}

\* The keywords determine_compression looks for in the joined media types.
\* A media-type string is modelled by the set of these keywords it contains.
Keywords == {"text", "zip", "image", "video", "audio", "archive"}

AlreadyCompressed == {"zip", "image", "video", "audio", "archive"}

determine_compression_no_size_rule(media, file_size) ==
    IF "text" \in media THEN "Brotli"
    ELSE IF media \cap AlreadyCompressed # {} THEN "None"
    ELSE IF SizeLess(OneGiB, file_size) THEN "XzParallel"
    ELSE "Xz"

determine_compression(media, file_size) ==
    IF SizeLess(file_size, TenKiB) THEN "None"
    ELSE IF "text" \in media THEN "Brotli"
    ELSE IF media \cap AlreadyCompressed # {} THEN "None"
    ELSE IF SizeLess(OneGiB, file_size) THEN "XzParallel"
    ELSE "Xz"

-----------------------------------------------------------------------------
(* Contents, hashes and the encoders *)

ContentA == << <<"raw", "a">>, <<"raw", "b">> >>
ContentB == << <<"raw", "b">> >>
ContentC == << <<"raw", "c">> >>

\* What the shell command of the model writes to its standard output.
CmdOutput == ContentC

Prefixes(bytes) == {SubSeq(bytes, 1, n) : n \in 0..Len(bytes)}

Contents == {ContentA, ContentB, ContentC} \cup Prefixes(CmdOutput)

\* blake3 is treated as collision-free: the hash of a content is the content
\* under a tag, so that two contents have the same hash iff they are equal.
hash_path(bytes) == <<"blake3", bytes>>

Hashes == {hash_path(c) : c \in Contents}

ContentOf(h) == h[2]

FrameTag(kind) ==
    CASE kind = "Brotli" -> "br"
      [] kind \in {"Xz", "XzParallel"} -> "xz"
      [] kind = "None" -> "raw"

\* What an encoder emits before the first chunk, for a chunk, and at the end
\* of its input.  Compression "None" is copy_buf: the bytes as they are.
Header(kind) == IF kind = "None" THEN <<>> ELSE << <<FrameTag(kind), "hdr">> >>

Body(kind, chunk) == IF kind = "None" THEN chunk ELSE <<FrameTag(kind), chunk[2]>>

Trailer(kind) == IF kind = "None" THEN <<>> ELSE << <<FrameTag(kind), "end">> >>

\* What the encoder selected in CachedFile::create writes for `bytes`.
Encode(kind, bytes) ==
    Header(kind) \o [i \in 1..Len(bytes) |-> Body(kind, bytes[i])] \o Trailer(kind)

Unframe(tag, payload) ==
    LET n == Len(payload) IN
    IF /\ n >= 2
       /\ payload[1] = <<tag, "hdr">>
       /\ payload[n] = <<tag, "end">>
       /\ \A i \in 2..(n - 1) : payload[i][1] = tag /\ payload[i][2] \notin {"hdr", "end"}
    THEN [ok |-> TRUE, bytes |-> [i \in 1..(n - 2) |-> <<"raw", payload[i + 1][2]>>]]
    ELSE [ok |-> FALSE, bytes |-> <<>>]

\* What the decoder selected by `kind` produces from a payload.
Decode(kind, payload) ==
    CASE kind = "None" -> [ok |-> TRUE, bytes |-> payload]
      [] kind \in {"Brotli", "Xz", "XzParallel"} -> Unframe(FrameTag(kind), payload)

-----------------------------------------------------------------------------
(* Source files handed to CachedFile::create *)

HalfMiB == Size(500, 0)
TwoGiB == Size(2 * KiB * KiB, 0)

\* The number of bytes hash_path counts for each content of the model (the
\* chunks of the model stand for contents of these sizes).
ByteCount(bytes) ==
    CASE bytes = ContentA -> HalfMiB
      [] bytes = ContentB -> TwoGiB
      [] OTHER -> Size(Len(bytes), 0)

SourceFiles ==
    { [path |-> "a.txt", bytes |-> ContentA, size |-> ByteCount(ContentA), media |-> {"text"}],
      [path |-> "a.png", bytes |-> ContentA, size |-> ByteCount(ContentA), media |-> {"image"}],
      [path |-> "a.bin", bytes |-> ContentA, size |-> ByteCount(ContentA), media |-> {}],
      [path |-> "b.bin", bytes |-> ContentB, size |-> ByteCount(ContentB), media |-> {}] }

NoSource == [path |-> "", bytes |-> <<>>, size |-> Size(0, 0), media |-> {}]

-----------------------------------------------------------------------------
(* The files/ tree *)

NoFile == [exists |-> FALSE, bytes |-> <<>>]

\* file.json: doc is <<>> while the file is empty and <<data>> once the
\* serialised StoredCacheFile has been written.
NoMeta == [exists |-> FALSE, doc |-> <<>>]

StoredCacheFile(kind, h) == [compression |-> kind, original_hash |-> h]

\* serde_json::from_reader on file.json
ParseMeta(m) ==
    IF Len(m.doc) = 1 THEN [ok |-> TRUE, data |-> m.doc[1]]
    ELSE [ok |-> FALSE, data |-> StoredCacheFile("None", <<>>)]

open_without_parsing(h) ==
    IF h \notin fdir \/ ~fmeta[h].exists \/ ~fpayload[h].exists
    THEN [result |-> "OpenPathError", data |-> StoredCacheFile("None", <<>>)]
    ELSE [result |-> "Ok", data |-> ParseMeta(fmeta[h]).data]

\* CachedFile::open
open(h) ==
    IF h \notin fdir \/ ~fmeta[h].exists \/ ~fpayload[h].exists
    THEN [result |-> "OpenPathError", data |-> StoredCacheFile("None", <<>>)]
    ELSE IF ~ParseMeta(fmeta[h]).ok
    THEN [result |-> "Malformed", data |-> StoredCacheFile("None", <<>>)]
    ELSE [result |-> "Ok", data |-> ParseMeta(fmeta[h]).data]

\* The blob of h is completely written: file.json is whole and the payload is
\* the whole encoding, under the kind file.json records, of the content with
\* hash h (the content of a source that does not change while it is stored).
BlobComplete(h) ==
    /\ h \in fdir
    /\ fpayload[h].exists
    /\ ParseMeta(fmeta[h]).ok
    /\ fpayload[h].bytes = Encode(ParseMeta(fmeta[h]).data.compression, ContentOf(h))

-----------------------------------------------------------------------------
(* CachedFile::create, one action per filesystem operation *)

Writers == {"t1", "t2"}

\* "main" is the main task of an invocation (it stores the stdout blob); the
\* writers are the store tasks of gather_output_files, or independent
\* producers.
Tasks == Writers \cup {"main"}

IdleTask ==
    [pc |-> "idle", hash |-> <<>>, size |-> Size(0, 0), src |-> NoSource,
     kind |-> "None", pos |-> 0, res |-> "none", early |-> "no"]

\* The positions of create at which the task has created the directory and
\* is still producing the blob.
WritingPcs ==
    {"detect", "open_src", "create_payload", "copy", "create_json", "write_json", "flush"}

\* The steps of create that can return an error of the filesystem.
FailingPcs == WritingPcs \cup {"mkdir"}

TmpPath == "tmp/fingerprint.txt"

\* The content create reads from original_path: the file as it is when read.
SrcBytes(t) == IF task[t].src.path = TmpPath THEN tmp.bytes ELSE task[t].src.bytes

\* What the existing directory of h holds when a create finds it.
Found(t, h) ==
    IF BlobComplete(h) THEN "complete"
    ELSE IF \E u \in Tasks \ {t} : task[u].hash = h /\ task[u].pc \in WritingPcs
    THEN "inflight"
    ELSE "leftover"

Return(t, res, early) ==
    task' = [task EXCEPT ![t].pc = "done", ![t].res = res, ![t].early = early]

create_call(t, f) ==
    /\ task[t].pc \in {"idle", "done"}
    /\ calls < MaxCalls
    /\ calls' = calls + 1
    /\ task' = [task EXCEPT ![t] =
           [IdleTask EXCEPT !.pc = "check", !.hash = hash_path(f.bytes),
                            !.size = f.size, !.src = f]]
    /\ UNCHANGED <<fdir, fpayload, fmeta, lastOpen, lastRestore, dc, orchVars, unitVars>>

DirNeverExists(h) == FALSE

\* file_dir.exists()
DirExists(h) == h \in fdir

\* if file_dir.exists() { return Ok(hash) }
create_check(t) ==
    /\ task[t].pc = "check"
    /\ IF DirExists(task[t].hash)
       THEN Return(t, "ok", Found(t, task[t].hash))
       ELSE task' = [task EXCEPT ![t].pc = "mkdir"]
    /\ UNCHANGED <<fdir, fpayload, fmeta, calls, lastOpen, lastRestore, dc, orchVars, unitVars>>

\* create_dir_all(&file_dir)
create_mkdir(t) ==
    /\ task[t].pc = "mkdir"
    /\ fdir' = fdir \cup {task[t].hash}
    /\ task' = [task EXCEPT ![t].pc = "detect"]
    /\ UNCHANGED <<fpayload, fmeta, calls, lastOpen, lastRestore, dc, orchVars, unitVars>>

\* Self::determine_compression(&original_path, size)
create_detect(t) ==
    /\ task[t].pc = "detect"
    /\ task' = [task EXCEPT ![t].pc = "open_src",
                            ![t].kind = determine_compression(task[t].src.media, task[t].size)]
    /\ UNCHANGED <<fdir, fpayload, fmeta, calls, lastOpen, lastRestore, dc, orchVars, unitVars>>

\* File::open(&original_path)
create_open_src(t) ==
    /\ task[t].pc = "open_src"
    /\ task' = [task EXCEPT ![t].pc = "create_payload"]
    /\ UNCHANGED <<fdir, fpayload, fmeta, calls, lastOpen, lastRestore, dc, orchVars, unitVars>>

\* File::create_new(file_dir.join(COMPRESSED_FILE_NAME))
create_payload(t) ==
    /\ task[t].pc = "create_payload"
    /\ IF fpayload[task[t].hash].exists
       THEN /\ Return(t, "AlreadyExists", "no")
            /\ UNCHANGED fpayload
       ELSE /\ fpayload' = [fpayload EXCEPT ![task[t].hash] = [exists |-> TRUE, bytes |-> <<>>]]
            /\ task' = [task EXCEPT ![t].pc = "copy"]
    /\ UNCHANGED <<fdir, fmeta, calls, lastOpen, lastRestore, dc, orchVars, unitVars>>

\* copy(&mut encoder, &mut target): one chunk of the source per step; at the
\* end of the source the encoder finishes its stream and copy flushes.
create_copy(t) ==
    /\ task[t].pc = "copy"
    /\ LET h == task[t].hash
           k == task[t].kind
           p == task[t].pos
           src == SrcBytes(t)
           head == IF p = 0 THEN Header(k) ELSE <<>>
       IN IF p < Len(src)
          THEN /\ fpayload' = [fpayload EXCEPT ![h].bytes = @ \o head \o <<Body(k, src[p + 1])>>]
               /\ task' = [task EXCEPT ![t].pos = p + 1]
          ELSE /\ fpayload' = [fpayload EXCEPT ![h].bytes = @ \o head \o Trailer(k)]
               /\ task' = [task EXCEPT ![t].pc = "create_json"]
    /\ UNCHANGED <<fdir, fmeta, calls, lastOpen, lastRestore, dc, orchVars, unitVars>>

\* File::create_new(file_dir.join(DATA_FILE_NAME))
create_json(t) ==
    /\ task[t].pc = "create_json"
    /\ IF fmeta[task[t].hash].exists
       THEN /\ Return(t, "AlreadyExists", "no")
            /\ UNCHANGED fmeta
       ELSE /\ fmeta' = [fmeta EXCEPT ![task[t].hash] = [exists |-> TRUE, doc |-> <<>>]]
            /\ task' = [task EXCEPT ![t].pc = "write_json"]
    /\ UNCHANGED <<fdir, fpayload, calls, lastOpen, lastRestore, dc, orchVars, unitVars>>

\* data_file.write_all(&json.as_bytes())
create_write_json(t) ==
    /\ task[t].pc = "write_json"
    /\ fmeta' = [fmeta EXCEPT ![task[t].hash].doc =
                     <<StoredCacheFile(task[t].kind, task[t].hash)>>]
    /\ task' = [task EXCEPT ![t].pc = "flush"]
    /\ UNCHANGED <<fdir, fpayload, calls, lastOpen, lastRestore, dc, orchVars, unitVars>>

\* target.flush(); data_file.flush(); Ok(hash)
create_flush(t) ==
    /\ task[t].pc = "flush"
    /\ Return(t, "ok", "no")
    /\ UNCHANGED <<fdir, fpayload, fmeta, calls, lastOpen, lastRestore, dc, orchVars, unitVars>>

\* Any `?` of create returning an I/O error (or the task being abandoned):
\* nothing is cleaned up.
create_fail(t) ==
    /\ task[t].pc \in FailingPcs
    /\ Return(t, "io", "no")
    /\ UNCHANGED <<fdir, fpayload, fmeta, calls, lastOpen, lastRestore, dc, orchVars, unitVars>>

create_step(t) ==
    \/ create_check(t)
    \/ create_mkdir(t)
    \/ create_detect(t)
    \/ create_open_src(t)
    \/ create_payload(t)
    \/ create_copy(t)
    \/ create_json(t)
    \/ create_write_json(t)
    \/ create_flush(t)
    \/ create_fail(t)

-----------------------------------------------------------------------------
(* Readers of the blob store *)

NoOpen == [hash |-> <<>>, result |-> "none", data |-> StoredCacheFile("None", <<>>)]

NoRestore == [hash |-> <<>>, result |-> "none", kind |-> "None", out |-> <<>>]

\* CachedFile::restore into the first destination: File::open(&self.path),
\* then the decoder selected by self.data.compression.
restore_with(kind, payload) ==
    IF ~payload.exists THEN [result |-> "Err", out |-> <<>>]
    ELSE IF Decode(kind, payload.bytes).ok
    THEN [result |-> "Ok", out |-> Decode(kind, payload.bytes).bytes]
    ELSE [result |-> "Err", out |-> <<>>]

restore_always_raw(data, payload) == restore_with("None", payload)

restore(data, payload) == restore_with(data.compression, payload)

reader_open(h) ==
    /\ lastOpen' = [hash |-> h, result |-> open(h).result, data |-> open(h).data]
    /\ UNCHANGED <<fdir, fpayload, fmeta, task, calls, lastRestore, dc, orchVars, unitVars>>

reader_restore ==
    /\ lastOpen.result = "Ok"
    /\ LET r == restore(lastOpen.data, fpayload[lastOpen.hash])
       IN lastRestore' = [hash |-> lastOpen.hash, result |-> r.result,
                          kind |-> lastOpen.data.compression, out |-> r.out]
    /\ UNCHANGED <<fdir, fpayload, fmeta, task, calls, lastOpen, dc, orchVars, unitVars>>

-----------------------------------------------------------------------------
(* The blob store under concurrent producers and readers *)

NoDc == [size |-> Size(0, 0), media |-> {}, kind |-> "None"]

CommandHash == <<"blake3", <<"sh -c cmd">>>>

Fingerprints == {CommandHash}

IdleRun ==
    [pc |-> "idle", kind |-> "none", proj |-> FALSE, result |-> "none",
     spawned |-> FALSE, out |-> <<>>, hashed |-> <<>>, log |-> <<>>,
     outputs |-> <<>>, pending |-> {}, doneq |-> <<>>,
     logdata |-> <<>>, handles |-> <<>>, running |-> {}, rq |-> <<>>, joined |-> 0]

\* code is the exit status the child ended with (0 until it has exited).
IdleChild == [state |-> "none", n |-> 0, code |-> 0]

IdleRestore ==
    [pc |-> "idle", hash |-> <<>>, data |-> StoredCacheFile("None", <<>>), dests |-> <<>>,
     i |-> 0, pos |-> 0, decoders |-> 0, result |-> "none"]

IdlePool == [state |-> "idle", waiting |-> 0, inflight |-> 0, finished |-> 0, failed |-> 0]

NoFingerprints == [state |-> "none"]

NoGlobs == [state |-> "idle"]

SemaphorePermits == 100

OutPathSeq == <<"out/1", "out/2", "out/3">>

OutPaths == {OutPathSeq[i] : i \in 1..Len(OutPathSeq)}

\* No invocation has run yet.
InitOrchestrator ==
    /\ cdir = {}
    /\ cjson = [f \in Fingerprints |-> NoMeta]
    /\ tmp = NoFile
    /\ work = [p \in OutPaths |-> NoFile]
    /\ run = IdleRun
    /\ runs = 0
    /\ child = IdleChild
    /\ pipe = <<>>
    /\ tee = "idle"
    /\ permits = SemaphorePermits
    /\ okCreates = {}

\* The files/ tree of a new cache is empty.
InitEmptyStore ==
    /\ fdir = {}
    /\ fpayload = [h \in Hashes |-> NoFile]
    /\ fmeta = [h \in Hashes |-> NoMeta]

InitCallers ==
    /\ task = [t \in Tasks |-> IdleTask]
    /\ calls = 0
    /\ lastOpen = NoOpen
    /\ lastRestore = NoRestore
    /\ dc = NoDc

InitUnits ==
    /\ rst = IdleRestore
    /\ pool = IdlePool
    /\ fpr = NoFingerprints
    /\ globs = NoGlobs

Init == InitOrchestrator /\ InitEmptyStore /\ InitCallers /\ InitUnits

NextBlob ==
    \/ \E t \in Writers, f \in SourceFiles : create_call(t, f)
    \/ \E t \in Writers : create_step(t)
    \/ \E h \in {hash_path(f.bytes) : f \in SourceFiles} : reader_open(h)
    \/ reader_restore

SpecBlob == Init /\ [][NextBlob]_vars

-----------------------------------------------------------------------------
(* determine_compression applied to sizes around its thresholds *)

SizeSamples ==
    { Size(0, 0), Size(9, KiB - 1), TenKiB, Size(10, 1), HalfMiB, Size(50 * KiB, 0),
      Size(KiB * KiB - 1, KiB - 1), OneGiB, Size(KiB * KiB, 1), TwoGiB }

compression_call(s, m) ==
    /\ dc' = [size |-> s, media |-> m, kind |-> determine_compression(m, s)]
    /\ UNCHANGED <<fdir, fpayload, fmeta, task, calls, lastOpen, lastRestore, orchVars, unitVars>>

NextCompression == \E s \in SizeSamples, m \in SUBSET Keywords : compression_call(s, m)

SpecCompression == Init /\ [][NextCompression]_vars

-----------------------------------------------------------------------------
(* The command record store *)

OutputFile(h, paths) == [paths |-> paths, hash |-> h]

CachedCommand(fp, log, output_files) ==
    [command_line |-> "cmd", hash |-> fp, log |-> log, output_files |-> output_files]

\* fs::exists(<cache_root>/files/<hash>): Ok(true) or Ok(false); the model
\* has no failing metadata query.
fs_exists_blob(h) == [is_ok |-> TRUE, value |-> h \in fdir]

\* CacheFolder::has_cached_file: fs::exists(..).is_ok()
has_cached_file(h) == fs_exists_blob(h).is_ok

\* CacheFolder::has_cached_command
has_cached_command(fp) == fp \in cdir

\* CacheFolder::get_cashed_command
get_cashed_command(fp) ==
    IF fp \notin cdir THEN [result |-> "NotFound", command |-> CachedCommand(fp, <<>>, <<>>)]
    ELSE IF ~cjson[fp].exists
    THEN [result |-> "NoCommandJson", command |-> CachedCommand(fp, <<>>, <<>>)]
    ELSE IF Len(cjson[fp].doc) # 1
    THEN [result |-> "Malformed", command |-> CachedCommand(fp, <<>>, <<>>)]
    ELSE [result |-> "Ok", command |-> cjson[fp].doc[1]]

-----------------------------------------------------------------------------
(* One invocation of the tool: main, handle_command *)

storeVars == <<fdir, fpayload, fmeta>>

readerVars == <<calls, lastOpen, lastRestore, dc>>

\* What the command of the model leaves in the project's output paths.
CmdFiles ==
    [p \in OutPaths |->
        CASE p = "out/1" -> [exists |-> TRUE, bytes |-> ContentB]
          [] p = "out/2" -> [exists |-> TRUE, bytes |-> ContentA]
          [] p = "out/3" -> [exists |-> TRUE, bytes |-> ContentB]]

\* Size and media type of the files create is handed by an invocation.
FileAt(p) ==
    [path |-> p, bytes |-> work[p].bytes, size |-> ByteCount(work[p].bytes),
     media |-> IF p = "out/2" THEN {} ELSE {"text"}]

\* Every exit of an invocation: the runtime shuts down, and the tasks that
\* are still running (store tasks, the tee task) stop where they are.
Finish(r, result) ==
    /\ run' = [r EXCEPT !.pc = "done", !.result = result, !.pending = {}, !.doneq = <<>>,
                        !.logdata = <<>>, !.handles = <<>>, !.running = {}, !.rq = <<>>,
                        !.joined = 0]
    /\ task' = [t \in Tasks |-> IdleTask]
    /\ tee' = "idle"

run_start(p) ==
    /\ run.pc \in {"idle", "done"}
    /\ runs < MaxRuns
    /\ runs' = runs + 1
    /\ run' = [IdleRun EXCEPT !.pc = "lookup", !.proj = p]
    /\ child' = IdleChild
    /\ pipe' = <<>>
    /\ permits' = SemaphorePermits
    /\ okCreates' = {}
    /\ UNCHANGED <<storeVars, readerVars, unitVars, task, cdir, cjson, tmp, work, tee>>

\* Between invocations the output files may be removed from the working tree.
clean_outputs ==
    /\ run.pc \in {"idle", "done"}
    /\ \E p \in OutPaths : work[p].exists
    /\ work' = [p \in OutPaths |-> NoFile]
    /\ UNCHANGED <<storeVars, readerVars, unitVars, task, cdir, cjson, tmp, run, runs, child, pipe,
                   tee, permits, okCreates>>

\* handle_command: if cache_folder.has_cached_command(&command_hash)
handle_command ==
    /\ run.pc = "lookup"
    /\ run' = IF has_cached_command(CommandHash)
              THEN [run EXCEPT !.pc = "hit_get", !.kind = "HIT"]
              ELSE [run EXCEPT !.pc = "spawn", !.kind = "MISS"]
    /\ UNCHANGED <<storeVars, readerVars, unitVars, task, cdir, cjson, tmp, work, runs, child, pipe,
                   tee, permits, okCreates>>

-----------------------------------------------------------------------------
(* handle_new_command: the child, the tee task and the main task *)

\* process.spawn(); tokio::spawn(redirect_to_file_and_stdout(..))
miss_spawn ==
    /\ run.pc = "spawn"
    /\ run' = [run EXCEPT !.pc = "wait", !.spawned = TRUE]
    /\ child' = [state |-> "running", n |-> 0, code |-> 0]
    /\ tee' = "create"
    /\ UNCHANGED <<storeVars, readerVars, unitVars, task, cdir, cjson, tmp, work, runs, pipe,
                   permits, okCreates>>

child_write ==
    /\ child.state = "running"
    /\ child.n < Len(CmdOutput)
    /\ pipe' = Append(pipe, CmdOutput[child.n + 1])
    /\ child' = [child EXCEPT !.n = @ + 1]
    /\ UNCHANGED <<storeVars, readerVars, unitVars, task, cdir, cjson, tmp, work, run, runs, tee,
                   permits, okCreates>>

\* The command has written its output files and all of its stdout: it exits
\* with status 0.
child_exit ==
    /\ child.state = "running"
    /\ child.n = Len(CmdOutput)
    /\ child' = [child EXCEPT !.state = "exited"]
    /\ work' = CmdFiles
    /\ UNCHANGED <<storeVars, readerVars, unitVars, task, cdir, cjson, tmp, run, runs, pipe, tee,
                   permits, okCreates>>

\* The command exits with a failure status, after the same output.
child_exit_failure ==
    /\ child.state = "running"
    /\ child.n = Len(CmdOutput)
    /\ child' = [child EXCEPT !.state = "exited", !.code = 1]
    /\ work' = CmdFiles
    /\ UNCHANGED <<storeVars, readerVars, unitVars, task, cdir, cjson, tmp, run, runs, pipe, tee,
                   permits, okCreates>>

\* File::create(temp_file_path): creates or truncates the capture file
tee_create ==
    /\ tee = "create"
    /\ tmp' = [exists |-> TRUE, bytes |-> <<>>]
    /\ tee' = "loop"
    /\ UNCHANGED <<storeVars, readerVars, unitVars, task, cdir, cjson, work, run, runs, child, pipe,
                   permits, okCreates>>

\* Ok(n): temp_output.write_all(&buf[..n]); current_stdout.write_all(&buf[..n])
tee_read ==
    /\ tee = "loop"
    /\ pipe # <<>>
    /\ tmp' = [tmp EXCEPT !.bytes = Append(@, Head(pipe))]
    /\ run' = [run EXCEPT !.out = Append(@, Head(pipe))]
    /\ pipe' = Tail(pipe)
    /\ UNCHANGED <<storeVars, readerVars, unitVars, task, cdir, cjson, work, runs, child, tee,
                   permits, okCreates>>

\* Ok(0) => break; temp_output.flush()
tee_eof ==
    /\ tee = "loop"
    /\ pipe = <<>>
    /\ child.state = "exited"
    /\ tee' = "done"
    /\ UNCHANGED <<storeVars, readerVars, unitVars, task, cdir, cjson, tmp, work, run, runs, child,
                   pipe, permits, okCreates>>

\* File::create or write_all fails (the task returns Err, which nobody
\* reads), or read fails (the loop breaks): the capture stays as it is.
tee_fail ==
    /\ tee \in {"create", "loop"}
    /\ tee' = "failed"
    /\ UNCHANGED <<storeVars, readerVars, unitVars, task, cdir, cjson, tmp, work, run, runs, child,
                   pipe, permits, okCreates>>

\* child.wait().await?
miss_wait ==
    /\ run.pc = "wait"
    /\ child.state = "exited"
    /\ run' = [run EXCEPT !.pc = "hash"]
    /\ UNCHANGED <<storeVars, readerVars, unitVars, task, cdir, cjson, tmp, work, runs, child, pipe,
                   tee, permits, okCreates>>

\* CachedFile::hash_path(&temp_file_path)?, then the call of
\* CachedFile::create(cache_folder.root, temp_file_path, hash, size)
miss_hash ==
    /\ run.pc = "hash"
    /\ IF tmp.exists
       THEN /\ run' = [run EXCEPT !.pc = "log_create", !.hashed = hash_path(tmp.bytes)]
            /\ task' = [task EXCEPT !["main"] =
                   [IdleTask EXCEPT !.pc = "check", !.hash = hash_path(tmp.bytes),
                                    !.size = ByteCount(tmp.bytes),
                                    !.src = [path |-> TmpPath, bytes |-> <<>>,
                                             size |-> ByteCount(tmp.bytes),
                                             media |-> {"text"}]]]
            /\ UNCHANGED tee
       ELSE Finish(run, "Err")
    /\ UNCHANGED <<storeVars, readerVars, unitVars, cdir, cjson, tmp, work, runs, child, pipe,
                   permits, okCreates>>

CreateResultIgnored(res) == TRUE

\* The `?` applied to the result of a create.
CreateOk(res) == res = "ok"

\* CachedFile::create(..).await? returns to handle_new_command
miss_log_created ==
    /\ run.pc = "log_create"
    /\ task["main"].pc = "done"
    /\ IF CreateOk(task["main"].res)
       THEN /\ run' = [run EXCEPT !.pc = IF run.proj THEN "gather" ELSE "put_mkdir",
                                  !.log = task["main"].hash]
            /\ okCreates' = okCreates \cup
                   (IF task["main"].res = "ok" THEN {task["main"].hash} ELSE {})
            /\ UNCHANGED <<task, tee>>
       ELSE /\ Finish(run, "Err")
            /\ UNCHANGED okCreates
    /\ UNCHANGED <<storeVars, readerVars, unitVars, cdir, cjson, tmp, work, runs, child, pipe, permits>>

-----------------------------------------------------------------------------
(* Project::gather_output_files *)

\* get_paths_from_globs: the regular files among the output paths, in order
MatchedPaths == SelectSeq(OutPathSeq, LAMBDA p : work[p].exists)

PathHash(p) == hash_path(work[p].bytes)

GroupFirstPathOnly(h) == <<Head(SelectSeq(MatchedPaths, LAMBDA p : PathHash(p) = h))>>

\* The paths of one entry of output_path_map, in the order they were pushed
GroupPaths(h) == SelectSeq(MatchedPaths, LAMBDA p : PathHash(p) = h)

\* The keys of output_path_map
GroupHashes == {PathHash(MatchedPaths[i]) : i \in 1..Len(MatchedPaths)}

\* The store task spawned for each entry of output_path_map
TaskOf(h) == IF h = hash_path(ContentB) THEN "t1" ELSE "t2"

\* hashing the matched paths, then futures.spawn(..) for every entry
gather_spawn ==
    /\ run.pc = "gather"
    /\ run' = [run EXCEPT !.pc = "join", !.pending = {TaskOf(h) : h \in GroupHashes}]
    /\ task' = [t \in Tasks |->
           IF \E h \in GroupHashes : TaskOf(h) = t
           THEN LET h == CHOOSE g \in GroupHashes : TaskOf(g) = t
                    f == FileAt(GroupPaths(h)[1])
                IN [IdleTask EXCEPT !.pc = "acquire", !.hash = h, !.size = f.size, !.src = f]
           ELSE task[t]]
    /\ UNCHANGED <<storeVars, readerVars, unitVars, cdir, cjson, tmp, work, runs, child, pipe, tee,
                   permits, okCreates>>

PermitAlwaysFree == TRUE

\* Semaphore::acquire returns when a permit is free.
PermitFree == permits > 0

\* let _token = clone.acquire().await?
gather_acquire(t) ==
    /\ task[t].pc = "acquire"
    /\ PermitFree
    /\ permits' = permits - 1
    /\ task' = [task EXCEPT ![t].pc = "check"]
    /\ UNCHANGED <<storeVars, readerVars, unitVars, cdir, cjson, tmp, work, run, runs, child, pipe,
                   tee, okCreates>>

\* The store task ends (future.await? or Ok((paths, hash_string))), dropping
\* its permit; the JoinSet has its result.
gather_release(t) ==
    /\ t \in run.pending
    /\ task[t].pc = "done"
    /\ permits' = permits + 1
    /\ task' = [task EXCEPT ![t].pc = "finished"]
    /\ run' = [run EXCEPT !.doneq = Append(@, t)]
    /\ UNCHANGED <<storeVars, readerVars, unitVars, cdir, cjson, tmp, work, runs, child, pipe, tee,
                   okCreates>>

gather_join_skipping_errors ==
    /\ run.pc = "join"
    /\ run.doneq # <<>>
    /\ LET t == Head(run.doneq)
           r == [run EXCEPT !.doneq = Tail(@), !.pending = @ \ {t}]
       IN /\ run' = IF task[t].res = "ok"
                    THEN [r EXCEPT !.outputs =
                             Append(@, OutputFile(task[t].hash, GroupPaths(task[t].hash)))]
                    ELSE r
          /\ okCreates' = okCreates \cup (IF task[t].res = "ok" THEN {task[t].hash} ELSE {})
    /\ UNCHANGED <<storeVars, readerVars, unitVars, task, tee, cdir, cjson, tmp, work, runs,
                   child, pipe, permits>>

\* futures.join_next(): Err(e) => bail!(e); Ok((paths, hash)) => push
gather_join ==
    /\ run.pc = "join"
    /\ run.doneq # <<>>
    /\ LET t == Head(run.doneq)
           r == [run EXCEPT !.doneq = Tail(@), !.pending = @ \ {t}]
       IN IF CreateOk(task[t].res)
          THEN /\ run' = [r EXCEPT !.outputs =
                      Append(@, OutputFile(task[t].hash, GroupPaths(task[t].hash)))]
               /\ okCreates' = okCreates \cup
                      (IF task[t].res = "ok" THEN {task[t].hash} ELSE {})
               /\ UNCHANGED <<task, tee>>
          ELSE /\ Finish(r, "Err")
               /\ UNCHANGED okCreates
    /\ UNCHANGED <<storeVars, readerVars, unitVars, cdir, cjson, tmp, work, runs, child, pipe, permits>>

\* join_next() is None: Ok(output_files)
gather_return ==
    /\ run.pc = "join"
    /\ run.pending = {}
    /\ run' = [run EXCEPT !.pc = "put_mkdir"]
    /\ UNCHANGED <<storeVars, readerVars, unitVars, task, cdir, cjson, tmp, work, runs, child, pipe,
                   tee, permits, okCreates>>

-----------------------------------------------------------------------------
(* CachedCommand::store_in_cache *)

\* tokio::fs::create_dir_all(&target_folder)
put_mkdir ==
    /\ run.pc = "put_mkdir"
    /\ cdir' = cdir \cup {CommandHash}
    /\ run' = [run EXCEPT !.pc = "put_create"]
    /\ UNCHANGED <<storeVars, readerVars, unitVars, task, cjson, tmp, work, runs, child, pipe, tee,
                   permits, okCreates>>

\* File::create(target_folder.join(COMMAND_FILE_NAME))
put_create ==
    /\ run.pc = "put_create"
    /\ cjson' = [cjson EXCEPT ![CommandHash] = [exists |-> TRUE, doc |-> <<>>]]
    /\ run' = [run EXCEPT !.pc = "put_write"]
    /\ UNCHANGED <<storeVars, readerVars, unitVars, task, cdir, tmp, work, runs, child, pipe, tee,
                   permits, okCreates>>

\* file.write_all(json.as_bytes()); Ok(())
put_write ==
    /\ run.pc = "put_write"
    /\ cjson' = [cjson EXCEPT ![CommandHash].doc =
                     <<CachedCommand(CommandHash, run.log, run.outputs)>>]
    /\ Finish(run, "Ok")
    /\ UNCHANGED <<storeVars, readerVars, unitVars, cdir, tmp, work, runs, child, pipe, permits,
                   okCreates>>

\* The steps of an invocation that can end it with an I/O error.
RunFailPcs ==
    {"spawn", "wait", "gather", "put_mkdir", "put_create", "put_write", "hit_stdout"}

run_fail ==
    /\ run.pc \in RunFailPcs
    /\ Finish(run, "Err")
    /\ UNCHANGED <<storeVars, readerVars, unitVars, cdir, cjson, tmp, work, runs, child, pipe,
                   permits, okCreates>>

-----------------------------------------------------------------------------
(* handle_existing_command *)

\* cache_folder.get_cashed_command(&command_hash)?
hit_get ==
    /\ run.pc = "hit_get"
    /\ LET r == get_cashed_command(CommandHash)
       IN IF r.result = "Ok"
          THEN /\ run' = [run EXCEPT !.pc = "hit_open_log", !.log = r.command.log,
                                     !.outputs = r.command.output_files]
               /\ UNCHANGED <<task, tee>>
          ELSE Finish(run, "Err")
    /\ UNCHANGED <<storeVars, readerVars, unitVars, cdir, cjson, tmp, work, runs, child, pipe,
                   permits, okCreates>>

\* cache_folder.get_cached_file(&Hash::from_hex(command.log)?).await?
hit_open_log ==
    /\ run.pc = "hit_open_log"
    /\ IF open(run.log).result = "Ok"
       THEN /\ run' = [run EXCEPT !.pc = "hit_open", !.logdata = <<open(run.log).data>>]
            /\ UNCHANGED <<task, tee>>
       ELSE Finish(run, "Err")
    /\ UNCHANGED <<storeVars, readerVars, unitVars, cdir, cjson, tmp, work, runs, child, pipe,
                   permits, okCreates>>

\* One round of the loop over command.output_files: get_cached_file, then
\* set.spawn(file.restore(dests)); after the last round, on to stdout_future.
hit_open ==
    /\ run.pc = "hit_open"
    /\ LET i == Len(run.handles) + 1
       IN IF i > Len(run.outputs)
          THEN /\ run' = [run EXCEPT !.pc = "hit_stdout"]
               /\ UNCHANGED <<task, tee>>
          ELSE IF open(run.outputs[i].hash).result = "Ok" /\ Len(run.outputs[i].paths) > 0
          THEN /\ run' = [run EXCEPT !.handles = Append(@, open(run.outputs[i].hash).data),
                                     !.running = @ \cup {i}]
               /\ UNCHANGED <<task, tee>>
          ELSE Finish(run, "Err")
    /\ UNCHANGED <<storeVars, readerVars, unitVars, cdir, cjson, tmp, work, runs, child, pipe,
                   permits, okCreates>>

\* stdout_future.await?: CachedFile::restore_to_stdout
hit_stdout ==
    /\ run.pc = "hit_stdout"
    /\ LET r == restore(run.logdata[1], fpayload[run.log])
       IN IF r.result = "Ok"
          THEN /\ run' = [run EXCEPT !.pc = "hit_join", !.out = @ \o r.out]
               /\ UNCHANGED <<task, tee>>
          ELSE Finish(run, "Err")
    /\ UNCHANGED <<storeVars, readerVars, unitVars, cdir, cjson, tmp, work, runs, child, pipe,
                   permits, okCreates>>

InAnyPath(p, paths) == TRUE

\* Whether p is one of the destinations
InPaths(p, paths) == \E j \in 1..Len(paths) : paths[j] = p

\* The restore task of association i: CachedFile::restore(dests)
restore_task(i) ==
    /\ i \in run.running
    /\ LET r == restore(run.handles[i], fpayload[run.outputs[i].hash])
           paths == run.outputs[i].paths
       IN /\ work' = [p \in OutPaths |->
                 IF r.result = "Ok" /\ InPaths(p, paths)
                 THEN [exists |-> TRUE, bytes |-> r.out]
                 ELSE IF r.result # "Ok" /\ p = paths[1] /\ fpayload[run.outputs[i].hash].exists
                 THEN [exists |-> TRUE, bytes |-> <<>>]
                 ELSE work[p]]
          /\ run' = [run EXCEPT !.running = @ \ {i}, !.rq = Append(@, r.result)]
    /\ UNCHANGED <<storeVars, readerVars, unitVars, task, cdir, cjson, tmp, runs, child, pipe, tee,
                   permits, okCreates>>

\* A restore task ends with an I/O error.
restore_fail(i) ==
    /\ i \in run.running
    /\ run' = [run EXCEPT !.running = @ \ {i}, !.rq = Append(@, "Err")]
    /\ UNCHANGED <<storeVars, readerVars, unitVars, task, cdir, cjson, tmp, work, runs, child, pipe,
                   tee, permits, okCreates>>

hit_join_invalidating ==
    /\ run.pc = "hit_join"
    /\ run.rq # <<>>
    /\ IF Head(run.rq) = "Ok"
       THEN /\ run' = [run EXCEPT !.rq = Tail(@), !.joined = @ + 1]
            /\ UNCHANGED <<task, tee, cdir>>
       ELSE /\ Finish(run, "Err")
            /\ cdir' = cdir \ {CommandHash}
    /\ UNCHANGED <<storeVars, readerVars, unitVars, cjson, tmp, work, runs, child, pipe,
                   permits, okCreates>>

\* set.join_next(): an Err bails, an Ok goes on
hit_join ==
    /\ run.pc = "hit_join"
    /\ run.rq # <<>>
    /\ IF Head(run.rq) = "Ok"
       THEN /\ run' = [run EXCEPT !.rq = Tail(@), !.joined = @ + 1]
            /\ UNCHANGED <<task, tee>>
       ELSE Finish(run, "Err")
    /\ UNCHANGED <<storeVars, readerVars, unitVars, cdir, cjson, tmp, work, runs, child, pipe,
                   permits, okCreates>>

hit_return_unjoined ==
    /\ run.pc = "hit_join"
    /\ Finish(run, "Ok")
    /\ UNCHANGED <<storeVars, readerVars, unitVars, cdir, cjson, tmp, work, runs, child, pipe,
                   permits, okCreates>>

\* join_next() is None: Ok(())
hit_return ==
    /\ run.pc = "hit_join"
    /\ run.joined = Len(run.outputs)
    /\ Finish(run, "Ok")
    /\ UNCHANGED <<storeVars, readerVars, unitVars, cdir, cjson, tmp, work, runs, child, pipe,
                   permits, okCreates>>

-----------------------------------------------------------------------------
(* Invocations of the tool, one after the other, on one cache *)

Next ==
    \/ \E p \in BOOLEAN : run_start(p)
    \/ clean_outputs
    \/ handle_command
    \/ miss_spawn
    \/ child_write
    \/ child_exit
    \/ tee_create
    \/ tee_read
    \/ tee_eof
    \/ tee_fail
    \/ miss_wait
    \/ miss_hash
    \/ \E t \in Tasks : create_step(t)
    \/ miss_log_created
    \/ gather_spawn
    \/ \E t \in Writers : gather_acquire(t)
    \/ \E t \in Writers : gather_release(t)
    \/ gather_join
    \/ gather_return
    \/ put_mkdir
    \/ put_create
    \/ put_write
    \/ run_fail
    \/ hit_get
    \/ hit_open_log
    \/ hit_open
    \/ hit_stdout
    \/ \E i \in 1..Len(run.outputs) : restore_task(i)
    \/ \E i \in 1..Len(run.outputs) : restore_fail(i)
    \/ hit_join
    \/ hit_return

Spec == Init /\ [][Next]_vars

\* The invocations of a command that may also exit with a failure status.
NextExit ==
    \/ Next
    \/ child_exit_failure

SpecExit == Init /\ [][NextExit]_vars

-----------------------------------------------------------------------------
(* CachedFile::restore, one action per filesystem operation *)

\* What a restore on its own leaves alone.
restoreFrame ==
    <<fdir, fpayload, fmeta, task, calls, lastOpen, lastRestore, dc, cdir, cjson, tmp, run,
      runs, child, pipe, tee, permits, okCreates, pool, fpr, globs>>

\* The values of NonEmpty<PathBuf> over the output paths: gather collects
\* unique paths, so a list names no path twice.
DestLists ==
    {s \in UNION {[1..n -> OutPaths] : n \in 1..Len(OutPathSeq)} :
        \A i, j \in 1..Len(s) : i # j => s[i] # s[j]}

\* What create leaves in files/<hash> for source file f.
StoredPayload(f) ==
    [exists |-> TRUE, bytes |-> Encode(determine_compression(f.media, f.size), f.bytes)]

StoredMeta(f) ==
    [exists |-> TRUE,
     doc |-> <<StoredCacheFile(determine_compression(f.media, f.size), hash_path(f.bytes))>>]

\* The files/ tree after creates of the files fs, of different contents, have
\* completed.
FilledStore(fs) ==
    /\ fdir = {hash_path(f.bytes) : f \in fs}
    /\ fpayload = [h \in Hashes |->
           IF \E f \in fs : hash_path(f.bytes) = h
           THEN StoredPayload(CHOOSE f \in fs : hash_path(f.bytes) = h) ELSE NoFile]
    /\ fmeta = [h \in Hashes |->
           IF \E f \in fs : hash_path(f.bytes) = h
           THEN StoredMeta(CHOOSE f \in fs : hash_path(f.bytes) = h) ELSE NoMeta]

\* The sets of source files no two of which have the same content.
SourceSets == {fs \in SUBSET SourceFiles : \A f, g \in fs : f.bytes = g.bytes => f = g}

\* A cache in which creates of some source files have completed.
InitFilledStore == \E fs \in SourceSets : FilledStore(fs)

InitRestore == InitOrchestrator /\ InitFilledStore /\ InitCallers /\ InitUnits

RstReturn(result) == rst' = [rst EXCEPT !.pc = "done", !.result = result]

\* cache_folder.get_cached_file(&hash).await?.restore(dests)
rst_call(h, dests) ==
    /\ rst.pc \in {"idle", "done"}
    /\ open(h).result = "Ok"
    /\ rst' = [IdleRestore EXCEPT !.pc = "open", !.hash = h, !.data = open(h).data,
                                  !.dests = dests]
    /\ UNCHANGED <<restoreFrame, work>>

\* File::open(&self.path), then create_parent for every destination
rst_open ==
    /\ rst.pc = "open"
    /\ IF fpayload[rst.hash].exists
       THEN rst' = [rst EXCEPT !.pc = "create_first"]
       ELSE RstReturn("Err")
    /\ UNCHANGED <<restoreFrame, work>>

\* File::create(&original_path) for destinations.first(); then the decoder of
\* self.data.compression is set up over the payload.
rst_create_first ==
    /\ rst.pc = "create_first"
    /\ work' = [work EXCEPT ![rst.dests[1]] = [exists |-> TRUE, bytes |-> <<>>]]
    /\ rst' = [rst EXCEPT !.pc = "decode", !.decoders = @ + 1]
    /\ UNCHANGED restoreFrame

\* copy(&mut decoder, &mut write_file): one chunk per step; a payload the
\* decoder rejects is an error, and the end of the payload flushes the file.
rst_decode ==
    /\ rst.pc = "decode"
    /\ LET r == restore(rst.data, fpayload[rst.hash])
       IN IF r.result # "Ok"
          THEN RstReturn("Err") /\ UNCHANGED work
          ELSE IF rst.pos < Len(r.out)
          THEN /\ work' = [work EXCEPT ![rst.dests[1]].bytes = Append(@, r.out[rst.pos + 1])]
               /\ rst' = [rst EXCEPT !.pos = @ + 1]
          ELSE /\ rst' = [rst EXCEPT !.pc = "tail", !.i = 2]
               /\ UNCHANGED work
    /\ UNCHANGED restoreFrame

TailSourcePayload(r) == fpayload[r.hash].bytes

\* File::open(original_path): the tail destinations are copies of the first.
TailSource(r) == work[r.dests[1]].bytes

\* for dest in destinations.tail(): File::open(original_path); File::create(dest)
rst_tail_create ==
    /\ rst.pc = "tail"
    /\ rst.i <= Len(rst.dests)
    /\ work' = [work EXCEPT ![rst.dests[rst.i]] = [exists |-> TRUE, bytes |-> <<>>]]
    /\ rst' = [rst EXCEPT !.pc = "tail_copy"]
    /\ UNCHANGED restoreFrame

\* copy_buf(&mut reader, &mut writer), which flushes the writer at the end
rst_tail_copy ==
    /\ rst.pc = "tail_copy"
    /\ work' = [work EXCEPT ![rst.dests[rst.i]].bytes = TailSource(rst)]
    /\ rst' = [rst EXCEPT !.pc = "tail", !.i = @ + 1]
    /\ UNCHANGED restoreFrame

\* Ok(destinations)
rst_return ==
    /\ rst.pc = "tail"
    /\ rst.i > Len(rst.dests)
    /\ RstReturn("Ok")
    /\ UNCHANGED <<restoreFrame, work>>

\* Any `?` of restore returning an I/O error: the destinations stay as they are.
rst_fail ==
    /\ rst.pc \in {"open", "create_first", "decode", "tail", "tail_copy"}
    /\ RstReturn("Err")
    /\ UNCHANGED <<restoreFrame, work>>

NextRestore ==
    \/ \E h \in Hashes, dests \in DestLists : rst_call(h, dests)
    \/ rst_open
    \/ rst_create_first
    \/ rst_decode
    \/ rst_tail_create
    \/ rst_tail_copy
    \/ rst_return
    \/ rst_fail

SpecRestore == InitRestore /\ [][NextRestore]_vars

-----------------------------------------------------------------------------
(* gather_output_files on its own, over every set of output files *)

\* The output files a command may have left: nothing, ContentA or ContentB
\* at each output path.
OutputConfigs ==
    [OutPaths -> {NoFile, [exists |-> TRUE, bytes |-> ContentA],
                  [exists |-> TRUE, bytes |-> ContentB]}]

\* The capture file of a command whose output was copied completely.
CaptureFile ==
    [path |-> TmpPath, bytes |-> CmdOutput, size |-> ByteCount(CmdOutput), media |-> {"text"}]

\* handle_new_command at its call of gather_output_files: the child has
\* exited, the capture is stored as the log blob, the project is known.
InitGather ==
    /\ cdir = {}
    /\ cjson = [f \in Fingerprints |-> NoMeta]
    /\ tmp = [exists |-> TRUE, bytes |-> CmdOutput]
    /\ work \in OutputConfigs
    /\ run = [IdleRun EXCEPT !.pc = "gather", !.kind = "MISS", !.proj = TRUE,
                             !.spawned = TRUE, !.out = CmdOutput,
                             !.hashed = hash_path(CmdOutput), !.log = hash_path(CmdOutput)]
    /\ runs = 1
    /\ child = [state |-> "exited", n |-> Len(CmdOutput), code |-> 0]
    /\ pipe = <<>>
    /\ tee = "done"
    /\ permits = SemaphorePermits
    /\ okCreates = {hash_path(CmdOutput)}
    /\ \E fs \in SourceSets : FilledStore(fs \cup {CaptureFile})
    /\ InitCallers
    /\ InitUnits

NextGather ==
    \/ gather_spawn
    \/ \E t \in Writers : gather_acquire(t)
    \/ \E t \in Writers : create_step(t)
    \/ \E t \in Writers : gather_release(t)
    \/ gather_join
    \/ gather_return
    \/ put_mkdir
    \/ put_create
    \/ put_write
    \/ run_fail

SpecGather == InitGather /\ [][NextGather]_vars

-----------------------------------------------------------------------------
(* The store tasks of a gather with many distinct hashes.  The tasks differ *)
(* only in the blob they store, so they are counted by their position:     *)
(* waiting for a permit, in flight (holding a permit, running create), or  *)
(* finished.                                                               *)

poolFrame ==
    <<fdir, fpayload, fmeta, task, calls, lastOpen, lastRestore, dc, cdir, cjson, tmp, work,
      run, runs, child, pipe, tee, okCreates, rst, fpr, globs>>

\* Semaphore::new(100); for (hash, (paths, size)) in output_path_map: futures.spawn(..)
pool_spawn(n) ==
    /\ pool.state \in {"idle", "returned", "bailed"}
    /\ pool' = [IdlePool EXCEPT !.state = "joining", !.waiting = n]
    /\ permits' = SemaphorePermits
    /\ UNCHANGED poolFrame

\* let _token = clone.acquire().await?; then future (the create) is polled
pool_acquire ==
    /\ pool.state = "joining"
    /\ pool.waiting > 0
    /\ PermitFree
    /\ permits' = permits - 1
    /\ pool' = [pool EXCEPT !.waiting = @ - 1, !.inflight = @ + 1]
    /\ UNCHANGED poolFrame

pool_finish_keeping_permit(ok) ==
    /\ pool.state = "joining"
    /\ pool.inflight > 0
    /\ pool' = [pool EXCEPT !.inflight = @ - 1, !.finished = @ + 1,
                            !.failed = IF ok THEN @ ELSE 1]
    /\ UNCHANGED <<poolFrame, permits>>

\* future.await? returns Err or Ok; the task ends and _token is dropped
pool_finish(ok) ==
    /\ pool.state = "joining"
    /\ pool.inflight > 0
    /\ permits' = permits + 1
    /\ pool' = [pool EXCEPT !.inflight = @ - 1, !.finished = @ + 1,
                            !.failed = IF ok THEN @ ELSE 1]
    /\ UNCHANGED poolFrame

\* join_next() yields an Err: bail!(e); the JoinSet is dropped, which aborts
\* the tasks that are left, and with them the creates in flight.
pool_bail ==
    /\ pool.state = "joining"
    /\ pool.failed > 0
    /\ pool' = [IdlePool EXCEPT !.state = "bailed"]
    /\ permits' = SemaphorePermits
    /\ UNCHANGED poolFrame

\* join_next() is None: Ok(output_files)
pool_return ==
    /\ pool.state = "joining"
    /\ pool.waiting = 0 /\ pool.inflight = 0 /\ pool.failed = 0
    /\ pool' = [IdlePool EXCEPT !.state = "returned"]
    /\ UNCHANGED <<poolFrame, permits>>

NextPermits ==
    \/ \E n \in 0..MaxHashes : pool_spawn(n)
    \/ pool_acquire
    \/ \E ok \in BOOLEAN : pool_finish(ok)
    \/ pool_bail
    \/ pool_return

SpecPermits == Init /\ [][NextPermits]_vars

\* The runtime polls every task that can run, the semaphore hands a free
\* permit to a waiting task, and a create in flight ends (with Ok or Err).
GatherSizes == {0, 1, SemaphorePermits, SemaphorePermits + 1, MaxHashes}

\* Gathers of no hash, of one, of as many as there are permits, and of more.
NextTermination ==
    \/ \E n \in GatherSizes : pool_spawn(n)
    \/ pool_acquire
    \/ \E ok \in BOOLEAN : pool_finish(ok)
    \/ pool_bail
    \/ pool_return

SpecPermitsFair ==
    /\ Init /\ [][NextTermination]_vars
    /\ WF_vars(pool_acquire)
    /\ WF_vars(\E ok \in BOOLEAN : pool_finish(ok))
    /\ WF_vars(pool_bail)
    /\ WF_vars(pool_return)

-----------------------------------------------------------------------------
(* CachedCommand::create_hash.  Strings are sequences of characters; the   *)
(* hasher is collision-free on the byte stream it is fed, so a fingerprint *)
(* is that stream under a tag.                                            *)

\* The order of the bytes of the characters of the model.
ByteOf(c) ==
    CASE c = "a" -> 1 [] c = "b" -> 2 [] c = "c" -> 3 [] c = "x" -> 4 [] c = "y" -> 5

\* Ord for String and PathBuf: byte by byte, a proper prefix first.
RECURSIVE LexLess(_, _)
LexLess(s, t) ==
    IF t = <<>> THEN FALSE
    ELSE IF s = <<>> THEN TRUE
    ELSE IF ByteOf(Head(s)) # ByteOf(Head(t)) THEN ByteOf(Head(s)) < ByteOf(Head(t))
    ELSE LexLess(Tail(s), Tail(t))

\* The keys of a BTreeMap<String, String> in the order its iterator yields them.
RECURSIVE SortedKeys(_)
SortedKeys(S) ==
    IF S = {} THEN <<>>
    ELSE LET m == CHOOSE k \in S : \A j \in S \ {k} : LexLess(k, j)
         IN <<m>> \o SortedKeys(S \ {m})

RECURSIVE Flatten(_)
Flatten(ss) == IF ss = <<>> THEN <<>> ELSE Head(ss) \o Flatten(Tail(ss))

\* The input paths of the model; "ylink" is a symbolic link to "y".
InputPaths == {"x", "y", "ylink"}

\* Path::canonicalize
canonicalize(p) == IF p = "x" THEN <<"x">> ELSE <<"y">>

\* One step of a stable sort: x goes behind the elements that are not
\* greater than it.
RECURSIVE InsertByKey(_, _)
InsertByKey(sorted, x) ==
    IF sorted = <<>> THEN <<x>>
    ELSE IF LexLess(canonicalize(x), canonicalize(Head(sorted)))
    THEN <<x>> \o sorted
    ELSE <<Head(sorted)>> \o InsertByKey(Tail(sorted), x)

files_unsorted(files) == files

\* files.par_sort_by_key(|e| e.canonicalize()): a stable sort
RECURSIVE par_sort_by_key(_)
par_sort_by_key(files) ==
    IF files = <<>> THEN <<>>
    ELSE InsertByKey(par_sort_by_key(SubSeq(files, 1, Len(files) - 1)), files[Len(files)])

\* The byte stream the hasher is updated with; fs gives the content of the
\* file at each canonical path.
HashStream(commandline, files, filtered_env, fs) ==
    LET keys == SortedKeys(DOMAIN filtered_env)
        sorted == par_sort_by_key(files)
    IN commandline
         \o Flatten([i \in 1..Len(keys) |-> keys[i] \o filtered_env[keys[i]]])
         \o Flatten([i \in 1..Len(sorted) |-> fs[canonicalize(sorted[i])]])

create_hash(commandline, files, filtered_env, fs) ==
    <<"blake3", HashStream(commandline, files, filtered_env, fs)>>

CommandLines == { <<"a">>, <<"a", "b">> }

EnvNames == { <<"b">>, <<"b", "c">> }

EnvValues == { <<>>, <<"c">> }

\* The values of BTreeMap<String, String> over the names of the model
EnvMaps == UNION {[S -> EnvValues] : S \in SUBSET EnvNames}

\* Vec<PathBuf> after unique(): at most two of the input paths, none twice
FileLists ==
    {<<>>} \cup {<<p>> : p \in InputPaths}
           \cup {s \in InputPaths \X InputPaths : s[1] # s[2]}

\* The contents of the input files, by canonical path
FileSystems ==
    { [k \in {<<"x">>, <<"y">>} |-> IF k = <<"x">> THEN <<"c">> ELSE <<"c", "c">>],
      [k \in {<<"x">>, <<"y">>} |-> IF k = <<"x">> THEN <<"c", "c">> ELSE <<"c">>],
      [k \in {<<"x">>, <<"y">>} |-> IF k = <<"x">> THEN <<"a">> ELSE <<"b">>] }

HashInputs ==
    [commandline : CommandLines, files : FileLists, env : EnvMaps, fs : FileSystems]

fprFrame ==
    <<fdir, fpayload, fmeta, task, calls, lastOpen, lastRestore, dc, cdir, cjson, tmp, work,
      run, runs, child, pipe, tee, permits, okCreates, rst, pool, globs>>

\* The first of two calls of create_hash
hash_first(i) ==
    /\ fpr.state = "none"
    /\ fpr' = [state |-> "one", a |-> i, ha |-> create_hash(i.commandline, i.files, i.env, i.fs)]
    /\ UNCHANGED fprFrame

\* The second call, in another process
hash_second(i) ==
    /\ fpr.state = "one"
    /\ fpr' = [state |-> "two", a |-> fpr.a, ha |-> fpr.ha, b |-> i,
               hb |-> create_hash(i.commandline, i.files, i.env, i.fs)]
    /\ UNCHANGED fprFrame

NextFingerprint ==
    \/ \E i \in HashInputs : hash_first(i)
    \/ \E i \in HashInputs : hash_second(i)

SpecFingerprint == Init /\ [][NextFingerprint]_vars

-----------------------------------------------------------------------------
(* main and handle_command up to the lookup: the project, the filtered     *)
(* environment, the fingerprint and the HIT/MISS decision.  A path is the  *)
(* sequence of its components.                                             *)

\* config.projects: two projects with different allow-lists and inputs
ConfigProjects ==
    << [name |-> "p", root |-> <<"p">>, envs |-> << <<"b">> >>, inputs |-> <<"x">>],
       [name |-> "q", root |-> <<"q">>, envs |-> << <<"b", "c">> >>, inputs |-> <<"y">>] >>

\* Option<&Project>: <<>> is None, <<project>> is Some(project); the first
\* of the projects found.
FirstProject(hits) == IF hits = <<>> THEN <<>> ELSE <<Head(hits)>>

\* Config::get_project
get_project(id) == FirstProject(SelectSeq(ConfigProjects, LAMBDA pr : pr.name = id))

\* Path::starts_with
starts_with(path, base) ==
    Len(base) <= Len(path) /\ SubSeq(path, 1, Len(base)) = base

\* Config::get_project_for_cwd
get_project_for_cwd(cwd) ==
    FirstProject(SelectSeq(ConfigProjects, LAMBDA pr : starts_with(cwd, pr.root)))

\* cli_project.or(working_dir_project); cli is <<>> or <<name>>
ActiveProject(cli, cwd) ==
    LET cli_project == IF cli = <<>> THEN <<>> ELSE get_project(cli[1])
    IN IF cli_project # <<>> THEN cli_project ELSE get_project_for_cwd(cwd)

filter_env_vars_of(project, env) ==
    IF project = <<>> THEN << >>
    ELSE LET names == {project[1].envs[k] : k \in 1..Len(project[1].envs)}
         IN [n \in names \cap DOMAIN env |-> env[n]]

\* Config::filter_env_vars: the allow-list is that of the project of the
\* working directory.
filter_env_vars(env, cwd) == filter_env_vars_of(get_project_for_cwd(cwd), env)

\* get_all_depenend_file_globs and get_paths_from_globs for the project
InputFilesOf(project) == IF project = <<>> THEN <<>> ELSE project[1].inputs

WorkingDirs == { <<"p">>, <<"q", "s">>, <<"o">> }

CliProjects == { <<>>, <<"p">>, <<"q">>, <<"r">> }

Invocations == [env : EnvMaps, cli : CliProjects, cwd : WorkingDirs]

InvokedFs == [k \in {<<"x">>, <<"y">>} |-> IF k = <<"x">> THEN <<"a">> ELSE <<"b">>]

\* What handle_command computes for invocation v of command "a" before it
\* looks the fingerprint up.
Computed(v) ==
    LET filtered == filter_env_vars(v.env, v.cwd)
    IN [filtered |-> filtered,
        hash |-> create_hash(<<"a">>, InputFilesOf(ActiveProject(v.cli, v.cwd)),
                             filtered, InvokedFs)]

\* An invocation on an empty cache: a MISS that stores its record
invoke_first(v) ==
    /\ fpr.state = "none"
    /\ fpr' = [state |-> "one", a |-> v, fa |-> Computed(v).filtered, ha |-> Computed(v).hash,
               records |-> {Computed(v).hash}]
    /\ UNCHANGED fprFrame

\* A later invocation on that cache: has_cached_command(&command_hash)
invoke_second(v) ==
    /\ fpr.state = "one"
    /\ fpr' = [state |-> "two", a |-> fpr.a, fa |-> fpr.fa, ha |-> fpr.ha,
               records |-> fpr.records, b |-> v, fb |-> Computed(v).filtered,
               hb |-> Computed(v).hash,
               kind |-> IF Computed(v).hash \in fpr.records THEN "HIT" ELSE "MISS"]
    /\ UNCHANGED fprFrame

NextEnv ==
    \/ \E v \in Invocations : invoke_first(v)
    \/ \E v \in Invocations : invoke_second(v)

SpecEnv == Init /\ [][NextEnv]_vars

-----------------------------------------------------------------------------
(* Claims about the blob store *)

\* C3: a create that finds the directory of its hash returns "already cached"
\* only when that directory is not the leftover of a create that failed or
\* was abandoned after making it.
C3_NoEarlyReturnOnLeftover ==
    \A t \in Tasks : ~(task[t].pc = "done" /\ task[t].early = "leftover")

\* C4: concurrent creates of one hash all return success, and neither a
\* create's early return nor an open treats a blob as complete while its
\* payload or metadata is partially written.
C4_ConcurrentCreateSafe ==
    /\ \A t \in Tasks : task[t].pc = "done" =>
           (task[t].res # "AlreadyExists" /\ task[t].early # "inflight")
    /\ lastOpen.result = "Ok" => BlobComplete(lastOpen.hash)

\* C7: a completely written blob is never changed again, and a create that
\* checks for a hash whose blob is complete returns success at once.
C7_CompleteBlobIsFinal ==
    [][ /\ \A h \in Hashes : BlobComplete(h) =>
              (h \in fdir' /\ fpayload'[h] = fpayload[h] /\ fmeta'[h] = fmeta[h])
        /\ \A t \in Tasks :
              (task[t].pc = "check" /\ BlobComplete(task[t].hash) /\ task'[t] # task[t])
                  => (task'[t].pc = "done" /\ task'[t].res = "ok") ]_vars

C7_Witness ==
    \E t \in Tasks : task[t].pc = "done" /\ task[t].res = "ok" /\ task[t].early = "complete"

\* C8: the payload of a blob that opens is the encoding of its content under
\* the kind file.json records, and restore, decoding with that kind, writes
\* the content byte for byte.
C8_RoundTrip ==
    /\ \A h \in Hashes : open(h).result = "Ok" =>
           /\ fpayload[h].bytes = Encode(open(h).data.compression, ContentOf(h))
           /\ restore(open(h).data, fpayload[h]) = [result |-> "Ok", out |-> ContentOf(h)]
    /\ lastRestore.result # "none" =>
           (lastRestore.result = "Ok" /\ lastRestore.out = ContentOf(lastRestore.hash))

C8_Witness ==
    /\ lastRestore.result = "Ok"
    /\ lastRestore.kind = "XzParallel"
    /\ lastRestore.out = ContentB
    /\ \E h \in Hashes : open(h).result = "Ok" /\ open(h).data.compression = "Brotli"

\* C9: the kind chosen is that of the first matching rule: size < 10 KiB ->
\* none; "text" -> brotli; zip, image, video, audio, archive -> none;
\* size > 1 GiB -> xz-parallel; otherwise xz.
C9_SelectionPolicy ==
    LET small == dc.size.kib < 10
        huge == dc.size.kib > KiB * KiB \/ (dc.size.kib = KiB * KiB /\ dc.size.rest > 0)
        text == "text" \in dc.media
        packed == \E k \in {"zip", "image", "video", "audio", "archive"} : k \in dc.media
    IN /\ small => dc.kind = "None"
       /\ (~small /\ text) => dc.kind = "Brotli"
       /\ (~small /\ ~text /\ packed) => dc.kind = "None"
       /\ (~small /\ ~text /\ ~packed /\ huge) => dc.kind = "XzParallel"
       /\ (~small /\ ~text /\ ~packed /\ ~huge) => dc.kind = "Xz"
       /\ (dc.size = Size(500, 0) /\ dc.media = {"text"}) => dc.kind = "Brotli"
       /\ (dc.size = Size(2 * KiB * KiB, 0) /\ dc.media = {"video"}) => dc.kind = "None"
       /\ (dc.size = Size(50 * KiB, 0) /\ dc.media = {}) => dc.kind = "Xz"
       /\ (dc.size = Size(10, 0) /\ dc.media = {}) => dc.kind = "Xz"
       /\ (dc.size = Size(KiB * KiB, 0) /\ dc.media = {}) => dc.kind = "Xz"

C9_Witness == dc.size = Size(KiB * KiB, 1) /\ dc.media = {} /\ dc.kind = "XzParallel"

\* C10: open reports the not-found error when the directory, file.json or
\* the payload is missing, and returns a handle only for a blob that is
\* completely written.
C10_OpenOnlyComplete ==
    /\ \A h \in Hashes :
           /\ (h \notin fdir \/ ~fmeta[h].exists \/ ~fpayload[h].exists)
                  => open(h).result = "OpenPathError"
           /\ open(h).result = "Ok" => BlobComplete(h)
    /\ lastOpen.result = "Ok" => BlobComplete(lastOpen.hash)

C10_Witness ==
    /\ lastOpen.result = "OpenPathError"
    /\ lastOpen.hash \in fdir
    /\ fpayload[lastOpen.hash].exists
    /\ fpayload[lastOpen.hash].bytes # <<>>
    /\ ~fmeta[lastOpen.hash].exists

-----------------------------------------------------------------------------
(* Claims about an invocation *)

\* The hashes a command record refers to.
Referenced(log, output_files) ==
    {log} \cup {output_files[i].hash : i \in 1..Len(output_files)}

\* C1: every step that changes the commands/ tree (store_in_cache) is taken
\* by a MISS whose create of the stdout blob and of every output blob of the
\* record has returned Ok before, and a record that is written refers to
\* such blobs only.
C1_PutAfterStores ==
    [][ (cdir' # cdir \/ cjson' # cjson) =>
          /\ run.kind = "MISS"
          /\ Referenced(run.log, run.outputs) \subseteq okCreates
          /\ \A f \in Fingerprints : Len(cjson'[f].doc) = 1 =>
                Referenced(cjson'[f].doc[1].log, cjson'[f].doc[1].output_files)
                    \subseteq okCreates ]_vars

C1_Witness ==
    /\ run.pc = "done" /\ run.kind = "MISS" /\ run.result = "Ok"
    /\ Len(cjson[CommandHash].doc) = 1
    /\ Len(cjson[CommandHash].doc[1].output_files) = 2

\* C2: after a MISS that ended with an error, the command record store does
\* not report the fingerprint as present.
C2_FailedMissLeavesNoRecord ==
    (run.pc = "done" /\ run.kind = "MISS" /\ run.result = "Err")
        => ~has_cached_command(CommandHash)

\* C5: an invocation that finds the record a successful MISS wrote is a HIT
\* that spawns nothing and, when it succeeds, has written to its standard
\* output exactly what the command wrote in the MISS.
C5_HitReplaysStdout ==
    (run.pc = "done" /\ runs > 1 /\ run.kind = "HIT" /\ Len(cjson[CommandHash].doc) = 1)
        => (~run.spawned /\ (run.result = "Ok" => run.out = CmdOutput))

\* C6: what a MISS hashes as the capture of the child's standard output is
\* all the child wrote.
C6_CaptureComplete ==
    (run.kind = "MISS" /\ run.hashed # <<>>) => run.hashed = hash_path(CmdOutput)

-----------------------------------------------------------------------------
(* Claims about restore *)

\* C11: a restore to N destinations decodes the payload once, into the first
\* destination; a remaining destination is written only after the first holds
\* the whole content and the destinations before it are written; and after a
\* successful restore every destination holds the original content.
C11_FanOutRestore ==
    [][ /\ rst'.decoders <= 1
        /\ \A k \in 2..Len(rst.dests) :
              (rst.pc # "idle" /\ rst'.hash = rst.hash /\ work'[rst.dests[k]] # work[rst.dests[k]])
                  => /\ rst.decoders = 1
                     /\ work[rst.dests[1]].bytes = ContentOf(rst.hash)
                     /\ \A j \in 2..(k - 1) : work[rst.dests[j]].bytes = ContentOf(rst.hash)
        /\ (rst'.pc = "done" /\ rst'.result = "Ok")
              => /\ rst'.decoders = 1
                 /\ \A k \in 1..Len(rst'.dests) :
                       work'[rst'.dests[k]] = [exists |-> TRUE, bytes |-> ContentOf(rst'.hash)] ]_vars

C11_Witness ==
    /\ rst.pc = "done" /\ rst.result = "Ok"
    /\ Len(rst.dests) = 3
    /\ rst.data.compression = "Brotli"
    /\ \A p \in OutPaths : work[p].bytes = ContentA

-----------------------------------------------------------------------------
(* Claims about gather *)

\* The output paths that hold a regular file with the content of hash h, and
\* the first of them in the order the globs yield them.
C12_PathsOf(h) == {p \in OutPaths : work[p].exists /\ hash_path(work[p].bytes) = h}

C12_FirstOf(h) ==
    OutPathSeq[CHOOSE i \in 1..Len(OutPathSeq) :
        /\ OutPathSeq[i] \in C12_PathsOf(h)
        /\ \A j \in 1..(i - 1) : OutPathSeq[j] \notin C12_PathsOf(h)]

C12_DistinctHashes == {h \in Hashes : C12_PathsOf(h) # {}}

\* C12: gather issues exactly one store per distinct content hash among the
\* matched files, reading the first path of the hash's group; and when it
\* succeeds it returns one association per distinct hash, each with at least
\* one path, every matched path being in exactly the association of its hash.
C12_OneAssociationPerHash ==
    /\ (run.pc = "join" /\ run.proj) =>
           /\ \A h \in C12_DistinctHashes :
                 /\ Cardinality({t \in Writers : task[t].pc # "idle" /\ task[t].hash = h}) = 1
                 /\ \A t \in Writers : (task[t].pc # "idle" /\ task[t].hash = h)
                       => task[t].src.path = C12_FirstOf(h)
           /\ \A t \in Writers : task[t].pc # "idle" => task[t].hash \in C12_DistinctHashes
    /\ (run.pc \in {"put_mkdir", "put_create", "put_write"} /\ run.proj) =>
           /\ Len(run.outputs) = Cardinality(C12_DistinctHashes)
           /\ \A i \in 1..Len(run.outputs) :
                 /\ Len(run.outputs[i].paths) >= 1
                 /\ run.outputs[i].hash \in C12_DistinctHashes
                 /\ {run.outputs[i].paths[j] : j \in 1..Len(run.outputs[i].paths)}
                        = C12_PathsOf(run.outputs[i].hash)
                 /\ Len(run.outputs[i].paths) = Cardinality(C12_PathsOf(run.outputs[i].hash))
           /\ \A i, j \in 1..Len(run.outputs) :
                 i # j => run.outputs[i].hash # run.outputs[j].hash

C12_Witness ==
    /\ run.pc = "put_mkdir" /\ run.proj
    /\ Len(run.outputs) = 2
    /\ \E i \in 1..2 : Len(run.outputs[i].paths) = 2
    /\ \E t \in Writers : task[t].early = "complete"

\* C13: at most 100 stores of a gather are in flight at any time, however
\* many hashes there are: a store is in flight only while it holds one of
\* the 100 permits, which it takes before its create starts and gives back
\* when the store finishes, with or without an error.
C13_BoundedStores ==
    [][ /\ pool'.inflight <= 100
        /\ pool'.inflight + permits' = 100
        /\ pool'.inflight > pool.inflight =>
              (permits > 0 /\ permits' = permits - 1 /\ pool'.inflight = pool.inflight + 1)
        /\ (pool'.state = "joining" /\ pool'.finished > pool.finished) =>
              (permits' = permits + 1 /\ pool'.inflight = pool.inflight - 1) ]_vars

C13_Witness ==
    /\ pool.inflight = 100
    /\ permits = 0
    /\ pool.waiting = 1
    /\ pool.failed = 1

\* C14: the step of gather that joins the result of a failed store ends the
\* invocation with an error, whatever was joined before, and leaves no
\* command record; gather fails at the first failed result in the order the
\* results are joined; and when gather returns a list, every store it
\* spawned has returned Ok and is in the list.
C14_GatherFailFast ==
    [][ /\ (run.pc = "join" /\ run.doneq # <<>> /\ Len(run'.doneq) < Len(run.doneq)) =>
              IF task[Head(run.doneq)].res = "ok"
              THEN /\ run'.pc = "join"
                   /\ Len(run'.outputs) = Len(run.outputs) + 1
                   /\ run'.outputs[Len(run'.outputs)].hash = task[Head(run.doneq)].hash
              ELSE /\ run'.pc = "done" /\ run'.result = "Err"
                   /\ CommandHash \notin cdir' /\ cjson'[CommandHash] = NoMeta
        /\ (run.pc = "join" /\ run'.pc = "done") =>
              /\ run.doneq # <<>> /\ task[Head(run.doneq)].res # "ok"
              /\ \A i \in 1..Len(run.outputs) : run.outputs[i].hash \in okCreates
        /\ (run.pc = "join" /\ run'.pc = "put_mkdir") =>
              /\ \A t \in Writers : task[t].pc # "idle" =>
                    /\ task[t].pc = "finished" /\ task[t].res = "ok"
                    /\ \E i \in 1..Len(run.outputs) : run.outputs[i].hash = task[t].hash
              /\ Len(run.outputs) = Cardinality({t \in Writers : task[t].pc # "idle"}) ]_vars

C14_Witness ==
    /\ run.pc = "done" /\ run.kind = "MISS" /\ run.result = "Err"
    /\ Len(run.outputs) = 1
    /\ CommandHash \notin cdir
    /\ \E h \in Hashes : h \in fdir /\ ~BlobComplete(h)

\* C15: when a gather that follows a failed invocation returns its list, the
\* blob of every association is complete and opens.
C15_RetryReconciles ==
    (runs > 1 /\ run.kind = "MISS" /\ run.proj /\ run.pc = "put_mkdir") =>
        \A i \in 1..Len(run.outputs) :
            /\ BlobComplete(run.outputs[i].hash)
            /\ open(run.outputs[i].hash).result = "Ok"

-----------------------------------------------------------------------------
(* Claims about a HIT *)

\* C16: no step of a HIT, and so no failed HIT, changes the commands/ tree
\* or the files/ tree: the record and the blobs are after the invocation
\* what they were before it.
C16_HitLeavesCache ==
    [][ (run.kind = "HIT" \/ run'.kind = "HIT") =>
            /\ cdir' = cdir /\ cjson' = cjson
            /\ fdir' = fdir /\ fpayload' = fpayload /\ fmeta' = fmeta ]_vars

C16_Witness ==
    /\ run.pc = "done" /\ run.kind = "HIT" /\ run.result = "Err"
    /\ Len(cjson[CommandHash].doc) = 1
    /\ Len(run.outputs) = 2
    /\ open(run.log).result = "Ok"
    /\ \A i \in 1..Len(run.outputs) : open(run.outputs[i].hash).result = "Ok"

-----------------------------------------------------------------------------
(* Claims about the fingerprint *)

\* The contents of the input files of a call, in the order of their
\* canonical paths.
C17_Contents(i) ==
    LET ps == {i.files[k] : k \in 1..Len(i.files)}
        keys == SortedKeys({canonicalize(q) : q \in ps})
    IN [k \in 1..Len(keys) |-> i.fs[keys[k]]]

\* C17: two calls with as many environment entries and as many input files
\* that differ in the command text, in a name or a value of the environment,
\* or in the content of an input file get different fingerprints.
C17_FingerprintUnique ==
    (/\ fpr.state = "two"
     /\ Cardinality(DOMAIN fpr.a.env) = Cardinality(DOMAIN fpr.b.env)
     /\ Len(C17_Contents(fpr.a)) = Len(fpr.a.files)
     /\ Len(C17_Contents(fpr.b)) = Len(fpr.b.files)
     /\ Len(fpr.a.files) = Len(fpr.b.files)
     /\ \/ fpr.a.commandline # fpr.b.commandline
        \/ fpr.a.env # fpr.b.env
        \/ C17_Contents(fpr.a) # C17_Contents(fpr.b))
        => fpr.ha # fpr.hb

\* C18: the fingerprint does not depend on the order of the input_files
\* list: two calls with the same command text, environment and file contents
\* whose lists hold the same paths return the same hash.
C18_OrderIndependent ==
    (/\ fpr.state = "two"
     /\ fpr.a.commandline = fpr.b.commandline
     /\ fpr.a.env = fpr.b.env
     /\ fpr.a.fs = fpr.b.fs
     /\ {fpr.a.files[k] : k \in 1..Len(fpr.a.files)} = {fpr.b.files[k] : k \in 1..Len(fpr.b.files)})
        => fpr.ha = fpr.hb

C18_Witness ==
    /\ fpr.state = "two"
    /\ fpr.a.files = <<"x", "y">> /\ fpr.b.files = <<"y", "x">>
    /\ fpr.a.commandline = fpr.b.commandline /\ fpr.a.env = fpr.b.env /\ fpr.a.fs = fpr.b.fs
    /\ fpr.a.fs[<<"x">>] = <<"a">> /\ fpr.a.fs[<<"y">>] = <<"b">>
    /\ Cardinality(DOMAIN fpr.a.env) = 2
    /\ fpr.ha = fpr.hb

\* The names on the allow-list of the active project of an invocation.
C19_AllowList(v) ==
    LET pr == ActiveProject(v.cli, v.cwd)
    IN IF pr = <<>> THEN {} ELSE {pr[1].envs[k] : k \in 1..Len(pr[1].envs)}

\* C19: two invocations from the same directory with the same project
\* option whose environments agree on every variable of the active project's
\* allow-list (on none, when no project is active) have the same filtered
\* environment and the same fingerprint, so the second is a HIT on the record
\* of the first.
C19_EnvOutsideAllowList ==
    (/\ fpr.state = "two"
     /\ fpr.a.cli = fpr.b.cli /\ fpr.a.cwd = fpr.b.cwd
     /\ \A n \in C19_AllowList(fpr.a) :
           /\ (n \in DOMAIN fpr.a.env) = (n \in DOMAIN fpr.b.env)
           /\ n \in DOMAIN fpr.a.env => fpr.a.env[n] = fpr.b.env[n])
        => (fpr.fa = fpr.fb /\ fpr.ha = fpr.hb /\ fpr.kind = "HIT")

-----------------------------------------------------------------------------
(* Claims about the capture of the child's standard output *)

\* C20: once the task that copies the child's standard output to the capture
\* file has failed, the MISS writes no command record and does not end with
\* success.
C20_CaptureFailureIsFatal ==
    [][ (tee = "failed" /\ run.kind = "MISS") =>
            /\ cdir' = cdir /\ cjson' = cjson
            /\ ~(run'.pc = "done" /\ run'.result = "Ok") ]_vars

-----------------------------------------------------------------------------
(* Config::get_all_depenend_file_globs, one action per round of its loop *)

MaxProjects == 4

\* The projects of a configuration are named 1..MaxProjects; 0 is a name
\* that no project has.
ProjectNames == 1..MaxProjects

\* project.inputs: the input globs of the project of a name
ProjectInputs(id) ==
    CASE id = 1 -> <<"a/*">>
      [] id = 2 -> <<"b/*">>
      [] id = 3 -> <<"b/*", "c/*">>
      [] OTHER -> <<"d/*">>

\* The elements of a set of numbers as a list
RECURSIVE ListOf(_)
ListOf(S) ==
    IF S = {} THEN <<>>
    ELSE LET m == CHOOSE x \in S : \A y \in S : x <= y
         IN <<m>> \o ListOf(S \ {m})

\* The depends_on lists of the configurations whose links form a DAG: a
\* project names projects behind it, in all combinations (chains, diamonds),
\* and the first project may also name a project that does not exist.
DagLinks ==
    {l \in ProjectNames \X (0..MaxProjects) : l[2] > l[1] \/ (l[2] = 0 /\ l[1] = 1)}

DagConfigs ==
    {[id \in ProjectNames |-> ListOf({dep \in 0..MaxProjects : <<id, dep>> \in links})] :
        links \in SUBSET DagLinks}

globsFrame ==
    <<fdir, fpayload, fmeta, task, calls, lastOpen, lastRestore, dc, cdir, cjson, tmp, work,
      run, runs, child, pipe, tee, permits, okCreates, rst, pool, fpr>>

FirstDependencyOnly(depends_on, id) ==
    LET deps == SelectSeq(depends_on[id], LAMBDA dep : dep \in ProjectNames)
    IN IF deps = <<>> THEN <<>> ELSE <<Head(deps)>>

\* current_project.depends_on.iter().filter_map(|id| self.get_project(id))
Dependencies(depends_on, id) == SelectSeq(depends_on[id], LAMBDA dep : dep \in ProjectNames)

\* Vec::dedup: removes consecutive repeated elements
RECURSIVE dedup(_)
dedup(s) ==
    IF Len(s) <= 1 THEN s
    ELSE IF s[1] = s[2] THEN dedup(Tail(s))
    ELSE <<s[1]>> \o dedup(Tail(s))

\* let mut projects = Vec::new(); let mut inputs = Vec::new(); projects.push(project)
globs_call(depends_on, project) ==
    /\ globs.state = "idle"
    /\ globs' = [state |-> "loop", depends_on |-> depends_on, project |-> project,
                 projects |-> <<project>>, inputs |-> <<>>]
    /\ UNCHANGED globsFrame

\* One round of `while let Some(current_project) = projects.pop()`
globs_pop ==
    /\ globs.state = "loop"
    /\ globs.projects # <<>>
    /\ LET current_project == globs.projects[Len(globs.projects)]
       IN globs' = [globs EXCEPT
              !.projects = SubSeq(@, 1, Len(@) - 1)
                               \o Dependencies(globs.depends_on, current_project),
              !.inputs = @ \o ProjectInputs(current_project)]
    /\ UNCHANGED globsFrame

\* projects.pop() is None: inputs.dedup(); Ok(inputs)
globs_return ==
    /\ globs.state = "loop"
    /\ globs.projects = <<>>
    /\ globs' = [globs EXCEPT !.state = "returned", !.inputs = dedup(@)]
    /\ UNCHANGED globsFrame

NextGlobs ==
    \/ \E depends_on \in DagConfigs, project \in ProjectNames : globs_call(depends_on, project)
    \/ globs_pop
    \/ globs_return

SpecGlobs == Init /\ [][NextGlobs]_vars

\* The loop is sequential code of one thread: a round that can run, runs.
SpecGlobsFair == SpecGlobs /\ WF_vars(globs_pop) /\ WF_vars(globs_return)

-----------------------------------------------------------------------------
(* handle_existing_command on a cache that holds the record of the command *)

\* The orders in which gather may have pushed the associations of the
\* output files in work.
RecordOrders ==
    {s \in [1..Cardinality(GroupHashes) -> GroupHashes] :
        \A i, j \in 1..Len(s) : i # j => s[i] # s[j]}

\* The cache after a MISS of the command in a project stored its record: the
\* capture is the log blob, the output files are as the MISS left them, and
\* of the blobs of the output files any may be missing.
InitHit ==
    /\ work \in OutputConfigs
    /\ cdir = {CommandHash}
    /\ \E s \in RecordOrders :
          cjson = [f \in Fingerprints |->
              [exists |-> TRUE,
               doc |-> <<CachedCommand(CommandHash, hash_path(CmdOutput),
                            [i \in 1..Len(s) |-> OutputFile(s[i], GroupPaths(s[i]))])>>]]
    /\ tmp = [exists |-> TRUE, bytes |-> CmdOutput]
    /\ run = IdleRun
    /\ runs = 0
    /\ child = IdleChild
    /\ pipe = <<>>
    /\ tee = "idle"
    /\ permits = SemaphorePermits
    /\ okCreates = {}
    /\ \E fs \in SourceSets : FilledStore(fs \cup {CaptureFile})
    /\ InitCallers
    /\ InitUnits

NextHit ==
    \/ \E p \in BOOLEAN : run_start(p)
    \/ clean_outputs
    \/ handle_command
    \/ hit_get
    \/ hit_open_log
    \/ hit_open
    \/ hit_stdout
    \/ \E i \in 1..Len(run.outputs) : restore_task(i)
    \/ \E i \in 1..Len(run.outputs) : restore_fail(i)
    \/ hit_join
    \/ hit_return
    \/ run_fail

SpecHit == InitHit /\ [][NextHit]_vars

-----------------------------------------------------------------------------
(* handle_command on input paths that may not resolve *)

MaxInvocations == 2

ResolvesAlways(p, gone) == TRUE

\* Whether canonicalize (and opening the file) succeeds for path p, when the
\* files of the paths in gone have disappeared since the globs were expanded.
Resolves(p, gone) == p \notin gone

\* CachedCommand::create_hash as a Result: the sort key is computed for
\* every element of a list of two or more, and .expect() panics on a path
\* that does not resolve; a single path is not sorted and fails in
\* update_mmap_rayon.
try_create_hash(commandline, files, filtered_env, fs, gone) ==
    IF \A i \in 1..Len(files) : Resolves(files[i], gone)
    THEN [result |-> "Ok", hash |-> create_hash(commandline, files, filtered_env, fs)]
    ELSE [result |-> IF Len(files) >= 2 THEN "Panic" ELSE "Err", hash |-> <<>>]

PathInputs == [files : FileLists, gone : SUBSET InputPaths]

InvocationCount == IF fpr.state = "none" THEN 0 ELSE fpr.count

CommandRecords == IF fpr.state = "none" THEN {} ELSE fpr.records

\* handle_command for command "a" with no project environment on the input
\* paths v.files; stored tells whether a MISS gets as far as its record.
handle_paths(v, stored) ==
    LET h == try_create_hash(<<"a">>, v.files, << >>, InvokedFs, v.gone)
        hit == h.result = "Ok" /\ h.hash \in CommandRecords
        miss == h.result = "Ok" /\ h.hash \notin CommandRecords
    IN /\ InvocationCount < MaxInvocations
       /\ fpr' = [state |-> "handled", count |-> InvocationCount + 1, v |-> v,
                  fingerprint |-> h,
                  looked_up |-> h.result = "Ok",
                  executed |-> miss,
                  before |-> CommandRecords,
                  records |-> IF miss /\ stored THEN CommandRecords \cup {h.hash}
                              ELSE CommandRecords,
                  result |-> IF h.result # "Ok" THEN h.result
                             ELSE IF hit \/ stored THEN "Ok" ELSE "Err"]
       /\ UNCHANGED fprFrame

NextPaths == \E v \in PathInputs, stored \in BOOLEAN : handle_paths(v, stored)

SpecPaths == Init /\ [][NextPaths]_vars

-----------------------------------------------------------------------------
(* Claims about the exit status of an invocation *)

\* C21: an invocation that executed the command and ended with success
\* executed a child that exited with status 0: a child that ends with a
\* failure status does not make the invocation report success.
C21_ExitMirrorsChild ==
    (run.pc = "done" /\ run.kind = "MISS" /\ run.result = "Ok") => child.code = 0

-----------------------------------------------------------------------------
(* Claims about input paths that do not resolve *)

-----------------------------------------------------------------------------
(* Claims about the end of a HIT *)

\* C23: a HIT ends with success only from the join loop, that is after the
\* replay of the log to stdout has finished, with one restore task spawned
\* per association of the record, none of them still running and every one
\* joined with an Ok result; a failed replay and a restore task joined with
\* an error end the invocation with an error.
C23_HitSuccessAfterJoins ==
    [][ /\ (run.kind = "HIT" /\ run.pc # "done" /\ run'.pc = "done" /\ run'.result = "Ok")
            => /\ run.pc = "hit_join"
               /\ run.out = restore(run.logdata[1], fpayload[run.log]).out
               /\ restore(run.logdata[1], fpayload[run.log]).result = "Ok"
               /\ Len(run.handles) = Len(run.outputs)
               /\ run.running = {}
               /\ run.rq = <<>>
               /\ run.joined = Len(run.outputs)
        /\ (run.pc = "hit_stdout" /\ run'.pc # "hit_stdout"
              /\ restore(run.logdata[1], fpayload[run.log]).result # "Ok")
            => (run'.pc = "done" /\ run'.result = "Err")
        /\ (run.pc = "hit_join" /\ run.rq # <<>> /\ Head(run.rq) # "Ok" /\ run'.pc # "hit_join")
            => (run'.pc = "done" /\ run'.result = "Err") ]_vars

\* A HIT that restored two associations, one of them to two paths, has ended
\* with success.
C23_Witness ==
    /\ run.pc = "done" /\ run.kind = "HIT" /\ run.result = "Ok"
    /\ Len(run.outputs) = 2
    /\ \E i \in 1..2 : Len(run.outputs[i].paths) = 2
    /\ run.out = CmdOutput

-----------------------------------------------------------------------------
(* Claims about the order of the associations *)

\* The hashes of the matched output files in the order of the first path of
\* each group: the one order that the files alone determine.
C24_HashOrder ==
    LET firsts == SelectSeq(MatchedPaths,
                      LAMBDA p : \A i \in 1..Len(MatchedPaths) :
                          (MatchedPaths[i] = p) =>
                              \A j \in 1..(i - 1) : PathHash(MatchedPaths[j]) # PathHash(p))
    IN [i \in 1..Len(firsts) |-> PathHash(firsts[i])]

\* C24: the list of associations gather returns is a function of the matched
\* output files and their contents alone, whatever the order in which the
\* store tasks complete: its associations are those of the groups, in the
\* order of the groups.
C24_GatherOrderFixed ==
    (run.pc = "put_mkdir" /\ run.proj) =>
        run.outputs = [i \in 1..Len(C24_HashOrder) |->
                          OutputFile(C24_HashOrder[i], GroupPaths(C24_HashOrder[i]))]

-----------------------------------------------------------------------------
(* Claims about the transitive input globs *)

\* The projects reachable from the projects in S through at most n links
RECURSIVE C25_Reachable(_, _, _)
C25_Reachable(depends_on, S, n) ==
    IF n = 0 THEN S
    ELSE C25_Reachable(depends_on,
             S \cup {dep \in ProjectNames :
                        \E id \in S : \E k \in 1..Len(depends_on[id]) : depends_on[id][k] = dep},
             n - 1)

C25_Globs(ids) == UNION {{ProjectInputs(id)[k] : k \in 1..Len(ProjectInputs(id))} : id \in ids}

\* C25: on a configuration whose dependency links form a DAG a call of
\* get_all_depenend_file_globs returns, and the set of the globs it returns
\* is the union of the input globs of the project and of every project
\* reachable from it through depends_on.
C25_TransitiveGlobs ==
    /\ [](globs.state = "returned" =>
            {globs.inputs[k] : k \in 1..Len(globs.inputs)}
                = C25_Globs(C25_Reachable(globs.depends_on, {globs.project}, MaxProjects)))
    /\ (globs.state = "loop" ~> globs.state = "returned")

\* A call on a diamond (1 -> 2, 1 -> 3, 2 -> 4, 3 -> 4) has returned.
C25_Witness ==
    /\ globs.state = "returned"
    /\ globs.project = 1
    /\ globs.depends_on[1] = <<2, 3>>
    /\ globs.depends_on[2] = <<4>>
    /\ globs.depends_on[3] = <<4>>
    /\ Len(globs.inputs) > 4

-----------------------------------------------------------------------------
(* Claims about the project of the allow-list *)

\* C26: the filtered environment of an invocation is its environment
\* restricted to the allow-list of its active project, the project the -p
\* option names or else the project of the working directory, and is empty
\* for want of a project only when no project is active.
C26_AllowListOfActiveProject ==
    fpr.state \in {"one", "two"} =>
        fpr.fa = filter_env_vars_of(ActiveProject(fpr.a.cli, fpr.a.cwd), fpr.a.env)

-----------------------------------------------------------------------------
(* Claims about the cache as a whole *)

\* C27: whenever the command record store reports a fingerprint as present,
\* also after invocations that failed part-way, its record can be read and
\* is well-formed, and the stdout blob and the blob of every association of
\* the record open and are completely written. Stated for the states between
\* invocations, which are among the states the claim is about.
C27_CacheIntegrity ==
    (run.pc \in {"idle", "done"} /\ has_cached_command(CommandHash)) =>
        /\ get_cashed_command(CommandHash).result = "Ok"
        /\ \A h \in Referenced(get_cashed_command(CommandHash).command.log,
                               get_cashed_command(CommandHash).command.output_files) :
              /\ open(h).result = "Ok"
              /\ BlobComplete(h)

-----------------------------------------------------------------------------
(* Claims about the termination of gather *)

\* C28: under fair scheduling a gather of any number of hashes, more than
\* 100 included, ends (it returns its list, or bails on a failed store), and
\* the tasks that wait for a permit do not wait forever: while gather goes
\* on, waiting tasks get permits until none waits, and tasks never wait
\* while every permit is free and unused.
C28_GatherTerminates ==
    /\ (pool.state = "joining" ~> pool.state \in {"returned", "bailed"})
    /\ ((pool.state = "joining" /\ pool.waiting > 0) ~> pool.waiting = 0)
    /\ [](pool.state = "joining" /\ pool.waiting > 0 /\ pool.inflight = 0 => permits > 0)

\* A gather of more than 100 hashes has started all of its stores, the last
\* ones after waiting for a permit, and none has failed.
C28_Witness ==
    /\ pool.state = "joining"
    /\ pool.finished > SemaphorePermits
    /\ pool.waiting = 0
    /\ pool.inflight = 0
    /\ pool.failed = 0

-----------------------------------------------------------------------------
(* Claims about what a HIT writes *)

\* The destination paths the record of the command lists.
C29_Listed ==
    IF Len(cjson[CommandHash].doc) # 1 THEN {}
    ELSE LET files == cjson[CommandHash].doc[1].output_files
         IN UNION {{files[i].paths[j] : j \in 1..Len(files[i].paths)} : i \in 1..Len(files)}

\* C29: a step of a HIT, whether the HIT goes on to succeed or to fail,
\* leaves commands/ (the record with its timestamps included) and files/ as
\* they are, leaves the capture file alone, and changes no file of the
\* working tree but destination paths that the record lists; what it adds
\* to standard output is the only other effect.
C29_HitWritesDestinationsOnly ==
    [][ (run'.kind = "HIT" /\ run.pc \notin {"idle", "done"}) =>
            /\ <<cdir, cjson>>' = <<cdir, cjson>>
            /\ <<fdir, fpayload, fmeta>>' = <<fdir, fpayload, fmeta>>
            /\ tmp' = tmp
            /\ \A p \in OutPaths : work'[p] # work[p] => p \in C29_Listed ]_vars

\* A HIT on a clean working tree has failed after one of its two restore
\* tasks wrote its destinations; a path the record does not list is absent.
C29_Witness ==
    /\ run.pc = "done" /\ run.kind = "HIT" /\ run.result = "Err"
    /\ Len(run.outputs) = 2
    /\ \E p \in C29_Listed : work[p].exists
    /\ \E p \in C29_Listed : ~work[p].exists
    /\ \E p \in OutPaths \ C29_Listed : ~work[p].exists

-----------------------------------------------------------------------------
(* Claims about has_cached_file *)

\* C30: has_cached_file(hash) is true exactly when the directory
\* files/<hash> exists, and so false for a hash that has never been stored.
C30_HasCachedFileExact ==
    \A h \in Hashes : has_cached_file(h) <=> h \in fdir

====
